---- MODULE Spec2Model ----
(***************************************************************************)
(* put-lang front end: the recursive-descent parser of src/src/parser.rs   *)
(* over the AST of src/src/ast.rs, driven as in src/src/main.rs.           *)
(*                                                                         *)
(* A token is a record [token_type, lexeme, line]; a lexeme is a sequence  *)
(* of one-character strings, so that `lexeme.contains('.')` is computed.   *)
(* Option<T> is a sequence of length 0 (None) or 1 (Some).  The parser's   *)
(* mutable part (the cursor, what it has written to stderr, and the uses   *)
(* it has made of the cursor) is the record [current, diag, trail]; a      *)
(* method returns [ret, self]: its value and the parser after the call.    *)
(*                                                                         *)
(* The collaborators of main.rs are modelled beside it: the debug printer  *)
(* of the AST (print_statement), the tensor value type of tensor.rs and    *)
(* the project-configuration reader of zom_parser.rs.                      *)
(***************************************************************************)
EXTENDS Integers, Sequences, FiniteSets, TLC

VARIABLES
    source,      \* main.rs: the source text handed to the lexer
    tokens,      \* Parser.tokens
    current,     \* Parser.current (0-based index into tokens)
    statements,  \* program.statements of the ProgramNode being built
    diag,        \* the lines written to stderr by eprintln!
    trail,       \* the uses of the cursor so far: advance() and previous()
    output,      \* main.rs: the lines of the AST printed to stdout
    t1,          \* tensor.rs: the tensor a caller holds (self)
    t2,          \* tensor.rs: a second tensor (other)
    outcome,     \* tensor.rs: the last operation and how it ended
    calls,       \* tensor.rs: the number of operations called so far
    lines,       \* zom_parser.rs: the lines of the file
    line_no,     \* zom_parser.rs: the number of lines read
    config,      \* zom_parser.rs: the ProjectConfig being filled
    current_section,  \* zom_parser.rs: the section the entries go to
    zom_result,  \* zom_parser.rs: what parse_zom_file returned
    pc           \* position of control: "lex", "parse", "eof", "break",
                 \* "printed"; "tensor", "abort"; "zom", "zom_done"

parser_vars == <<source, tokens, current, statements, diag, trail>>
tensor_vars == <<t1, t2, outcome, calls>>
zom_vars == <<lines, line_no, config, current_section, zom_result>>

vars == <<parser_vars, output, tensor_vars, zom_vars, pc>>

\* What a step of the parser leaves alone.
elsewhere == <<output, tensor_vars, zom_vars>>

-----------------------------------------------------------------------------
(* Bounds of the model *)

MaxLen == 3
MaxOps == 2
MaxStmts == 2
MaxSrcLen == 2
MaxNest == 2

-----------------------------------------------------------------------------
(* Option *)

None == <<>>
Some(x) == <<x>>

-----------------------------------------------------------------------------
(* Bounded inputs: the sequences of at most n elements of S *)

RECURSIVE SeqsUpTo(_, _)
SeqsUpTo(S, n) ==
    IF n = 0 THEN {<<>>}
    ELSE LET R == SeqsUpTo(S, n - 1)
         IN  R \cup {Append(r, x) : r \in {q \in R : Len(q) = n - 1}, x \in S}

-----------------------------------------------------------------------------
(* Tokens *)

Token(tt, lx, ln) == [token_type |-> tt, lexeme |-> lx, line |-> ln]

TokenType ==
    {"Var", "If", "Else", "While", "Identifier", "Number", "Assign",
     "Semicolon", "LeftParen", "RightParen", "Plus", "Minus", "Star",
     "Slash", "EOF"}

tVar == Token("Var", <<"v", "a", "r">>, 1)
tIf == Token("If", <<"i", "f">>, 1)
tElse == Token("Else", <<"e", "l", "s", "e">>, 1)
tWhile == Token("While", <<"w", "h", "i", "l", "e">>, 1)
tAssign == Token("Assign", <<"=">>, 1)
tSemi == Token("Semicolon", <<";">>, 1)
tLP == Token("LeftParen", <<"(">>, 1)
tRP == Token("RightParen", <<")">>, 1)
tPlus == Token("Plus", <<"+">>, 1)
tMinus == Token("Minus", <<"-">>, 1)
tStar == Token("Star", <<"*">>, 1)
tSlash == Token("Slash", <<"/">>, 1)
tEOF == Token("EOF", <<>>, 1)
tId(c) == Token("Identifier", <<c>>, 1)
tNum(lx) == Token("Number", lx, 1)

-----------------------------------------------------------------------------
(* AST nodes (ast.rs) *)

VariableNode(name, data_type) ==
    [kind |-> "Variable", name |-> name, data_type |-> data_type]

NumberNode(value, data_type) ==
    [kind |-> "Number", value |-> value, data_type |-> data_type]

AssignmentNode(left, right) ==
    [kind |-> "Assignment", left |-> left, right |-> right]

BinaryOperationNode(left, operator, right) ==
    [kind |-> "BinaryOperation", left |-> left, operator |-> operator,
     right |-> right]

ParenthesisNode(expression) ==
    [kind |-> "Parenthesis", expression |-> expression]

IfNode(condition, then_branch, else_branch) ==
    [kind |-> "If", condition |-> condition, then_branch |-> then_branch,
     else_branch |-> else_branch]

WhileNode(condition, body) ==
    [kind |-> "While", condition |-> condition, body |-> body]

-----------------------------------------------------------------------------
(* Lexer, as section 4.1 of the specification describes it.  A source is a
   sequence of one-character strings. *)

Letters ==
    {"a", "b", "c", "d", "e", "f", "g", "h", "i", "j", "k", "l", "m", "n",
     "o", "p", "q", "r", "s", "t", "u", "v", "w", "x", "y", "z", "_"}

Digits == {"0", "1", "2", "3", "4", "5", "6", "7", "8", "9"}

Whitespace == {" ", "\t", "\r", "\n"}

keyword_or_identifier(lexeme) ==
    CASE lexeme = <<"v", "a", "r">> -> "Var"
      [] lexeme = <<"i", "f">> -> "If"
      [] lexeme = <<"e", "l", "s", "e">> -> "Else"
      [] lexeme = <<"w", "h", "i", "l", "e">> -> "While"
      [] OTHER -> "Identifier"

single_character(c) ==
    CASE c = "+" -> "Plus"
      [] c = "-" -> "Minus"
      [] c = "*" -> "Star"
      [] c = "/" -> "Slash"
      [] c = "=" -> "Assign"
      [] c = ";" -> "Semicolon"
      [] c = "(" -> "LeftParen"
      [] c = ")" -> "RightParen"
      [] OTHER -> "Unrecognized"

\* The index after the identifier characters that start at i.
RECURSIVE identifier_end(_, _)
identifier_end(src, i) ==
    IF i <= Len(src) /\ src[i] \in Letters \cup Digits
    THEN identifier_end(src, i + 1) ELSE i

\* The index after the digits that start at i.
RECURSIVE digits_end(_, _)
digits_end(src, i) ==
    IF i <= Len(src) /\ src[i] \in Digits THEN digits_end(src, i + 1) ELSE i

\* number_end that stops at the `.`.
number_end_integer(src, i) == digits_end(src, i)

\* The index after the number that starts at i: digits, then at most one
\* `.` followed by digits.
number_end(src, i) ==
    LET j == digits_end(src, i)
    IN  IF j < Len(src) /\ src[j] = "." /\ src[j + 1] \in Digits
        THEN digits_end(src, j + 1) ELSE j

\* One forward pass from index i at line `line`: the tokens and the lexical
\* errors, in order.
RECURSIVE scan(_, _, _, _, _)
scan(src, i, line, out, errors) ==
    IF i > Len(src)
    THEN [tokens |-> Append(out, Token("EOF", <<>>, line)), errors |-> errors]
    ELSE IF src[i] = "\n" THEN scan(src, i + 1, line + 1, out, errors)
    ELSE IF src[i] \in Whitespace THEN scan(src, i + 1, line, out, errors)
    ELSE IF src[i] \in Letters THEN
        scan(src, identifier_end(src, i), line,
             Append(out, Token(keyword_or_identifier(
                                   SubSeq(src, i, identifier_end(src, i) - 1)),
                               SubSeq(src, i, identifier_end(src, i) - 1),
                               line)),
             errors)
    ELSE IF src[i] \in Digits THEN
        scan(src, number_end(src, i), line,
             Append(out, Token("Number",
                               SubSeq(src, i, number_end(src, i) - 1), line)),
             errors)
    ELSE IF single_character(src[i]) # "Unrecognized" THEN
        scan(src, i + 1, line,
             Append(out, Token(single_character(src[i]), <<src[i]>>, line)),
             errors)
    ELSE scan(src, i + 1, line, out,
              Append(errors, <<"Lexical error", src[i], line>>))

tokenize(src) == scan(src, 1, 1, <<>>, <<>>)

-----------------------------------------------------------------------------
(* Parser: the cursor primitives *)

peek(p) == tokens[p.current + 1]

previous(p) == tokens[p.current]

is_at_end(p) == peek(p).token_type = "EOF"

check(p, token_type) ==
    IF is_at_end(p) THEN FALSE ELSE peek(p).token_type = token_type

\* The parser after a use of its cursor: `op` at index p.current.
used(p, op) ==
    [p EXCEPT !.trail = Append(@, [op |-> op, at |-> p.current])]

advance(p) ==
    LET q == used(IF ~is_at_end(p) THEN [p EXCEPT !.current = @ + 1] ELSE p,
                  "advance")
    IN  [ret |-> previous(q), self |-> used(q, "previous")]

match_token(p, token_type) ==
    IF check(p, token_type)
    THEN [ret |-> TRUE, self |-> advance(p).self]
    ELSE [ret |-> FALSE, self |-> p]

match_any(p, token_types) ==
    IF \E i \in 1..Len(token_types) : check(p, token_types[i])
    THEN [ret |-> TRUE, self |-> advance(p).self]
    ELSE [ret |-> FALSE, self |-> p]

eprintln(p, line) == [p EXCEPT !.diag = Append(@, line)]

consume(p, token_type, message) ==
    IF check(p, token_type)
    THEN [ret |-> Some(advance(p).ret), self |-> advance(p).self]
    ELSE [ret |-> None,
          self |-> eprintln(p, <<"Parse error", message, peek(p).line>>)]

contains(lexeme, c) == \E i \in 1..Len(lexeme) : lexeme[i] = c

-----------------------------------------------------------------------------
(* Parser: the productions *)

RECURSIVE parse_statement(_), parse_if_statement(_), parse_while_statement(_)
RECURSIVE parse_variable_declaration(_), parse_expression(_)
RECURSIVE parse_addition(_), parse_addition_loop(_, _)
RECURSIVE parse_multiplication(_), parse_multiplication_loop(_, _)
RECURSIVE parse_primary(_), primary_group(_)

\* A production's results: Some(node) or None, with the parser after it.
Ok(node, p) == [ret |-> Some(node), self |-> p]
Fail(p) == [ret |-> None, self |-> p]

\* `let v = r?; K`: None returns None from the enclosing production.  The
\* result r is bound once (v \in {r}): the call is made once, as in the code.
Try(r, K(_, _)) ==
    CHOOSE out \in {IF v.ret = None THEN Fail(v.self)
                    ELSE K(v.ret[1], v.self) : v \in {r}} : TRUE

\* `if m { T } else { E }` on the result m of match_token / match_any,
\* bound once.
IfElse(m, T(_), E(_)) ==
    CHOOSE out \in {IF v.ret THEN T(v.self) ELSE E(v.self) : v \in {m}} : TRUE

\* number_data_type that tags every literal Integer.
number_data_type_integer(lexeme) == "Integer"

number_data_type(lexeme) ==
    IF contains(lexeme, ".") THEN "Float" ELSE "Integer"

primary_number(p) ==
    Ok(NumberNode(previous(p).lexeme, number_data_type(previous(p).lexeme)),
       used(p, "previous"))

primary_identifier(p) ==
    Ok(VariableNode(previous(p).lexeme, "Integer"), used(p, "previous"))

\* primary_group with the grouping node dropped.
primary_group_elided(p) ==
    Try(parse_expression(p), LAMBDA expr, p1 :
        Try(consume(p1, "RightParen", "Expect ')' after expression."),
            LAMBDA rp, p2 : Ok(expr, p2)))

primary_group(p) ==
    Try(parse_expression(p), LAMBDA expr, p1 :
        Try(consume(p1, "RightParen", "Expect ')' after expression."),
            LAMBDA rp, p2 : Ok(ParenthesisNode(expr), p2)))

\* primary_unexpected without its diagnostic.
primary_unexpected_silent(p) == Fail(p)

primary_unexpected(p) ==
    Fail(eprintln(p, <<"Unexpected token", peek(p)>>))

parse_primary(p) ==
    IfElse(match_token(p, "Number"), primary_number, LAMBDA p1 :
        IfElse(match_token(p1, "Identifier"), primary_identifier, LAMBDA p2 :
            IfElse(match_token(p2, "LeftParen"), primary_group,
                   primary_unexpected)))

multiplication_operator(token) ==
    IF token.token_type = "Star" THEN "Multiply" ELSE "Divide"

\* parse_multiplication_loop whose right operand is a whole expression.
parse_multiplication_loop_loose(expr, p) ==
    IfElse(match_any(p, <<"Star", "Slash">>),
           LAMBDA p1 :
               Try(parse_expression(used(p1, "previous")), LAMBDA right, p2 :
                   parse_multiplication_loop(
                       BinaryOperationNode(
                           expr, multiplication_operator(previous(p1)), right),
                       p2)),
           LAMBDA p1 : Ok(expr, p1))

parse_multiplication_loop(expr, p) ==
    IfElse(match_any(p, <<"Star", "Slash">>),
           LAMBDA p1 :
               Try(parse_primary(used(p1, "previous")), LAMBDA right, p2 :
                   parse_multiplication_loop(
                       BinaryOperationNode(
                           expr, multiplication_operator(previous(p1)), right),
                       p2)),
           LAMBDA p1 : Ok(expr, p1))

parse_multiplication(p) ==
    Try(parse_primary(p), parse_multiplication_loop)

addition_operator(token) ==
    IF token.token_type = "Plus" THEN "Add" ELSE "Subtract"

\* parse_addition_loop folding to the right: the rest of the chain becomes
\* the right operand.
parse_addition_loop_right(expr, p) ==
    IfElse(match_any(p, <<"Plus", "Minus">>),
           LAMBDA p1 :
               Try(parse_multiplication(used(p1, "previous")),
                   LAMBDA right, p2 :
                   Try(parse_addition_loop(right, p2), LAMBDA rest, p3 :
                       Ok(BinaryOperationNode(
                              expr, addition_operator(previous(p1)), rest),
                          p3))),
           LAMBDA p1 : Ok(expr, p1))

parse_addition_loop(expr, p) ==
    IfElse(match_any(p, <<"Plus", "Minus">>),
           LAMBDA p1 :
               Try(parse_multiplication(used(p1, "previous")),
                   LAMBDA right, p2 :
                   parse_addition_loop(
                       BinaryOperationNode(
                           expr, addition_operator(previous(p1)), right),
                       p2)),
           LAMBDA p1 : Ok(expr, p1))

\* parse_addition taking its first operand from parse_primary.
parse_addition_flat(p) ==
    Try(parse_primary(p), parse_addition_loop)

parse_addition(p) ==
    Try(parse_multiplication(p), parse_addition_loop)

parse_expression(p) == parse_addition(p)

\* declaration_end that accepts a declaration without its `;`.
declaration_end_lenient(var_name, initializer, p) ==
    IfElse(match_token(p, "Semicolon"),
           LAMBDA p1 :
               IF initializer # None
               THEN Ok(AssignmentNode(VariableNode(var_name, "Integer"),
                                      initializer[1]), p1)
               ELSE Ok(VariableNode(var_name, "Integer"), p1),
           LAMBDA p1 :
               IF initializer # None
               THEN Ok(AssignmentNode(VariableNode(var_name, "Integer"),
                                      initializer[1]), p1)
               ELSE Ok(VariableNode(var_name, "Integer"), p1))

\* parse_variable_declaration from the `;` on, initializer being an Option.
declaration_end(var_name, initializer, p) ==
    Try(consume(p, "Semicolon", "Expect ';' after variable declaration."),
        LAMBDA semi, p1 :
            IF initializer # None
            THEN Ok(AssignmentNode(VariableNode(var_name, "Integer"),
                                   initializer[1]), p1)
            ELSE Ok(VariableNode(var_name, "Integer"), p1))

parse_variable_declaration(p) ==
    Try(consume(p, "Identifier", "Expect variable name."),
        LAMBDA name_token, p1 :
            IfElse(match_token(p1, "Assign"),
                   LAMBDA p2 :
                       Try(parse_expression(p2), LAMBDA init, p3 :
                           declaration_end(name_token.lexeme, Some(init), p3)),
                   LAMBDA p2 :
                       declaration_end(name_token.lexeme, None, p2)))

parse_while_statement(p) ==
    Try(consume(p, "LeftParen", "Expect '(' after 'while'."),
        LAMBDA lp, p1 :
    Try(parse_expression(p1), LAMBDA condition, p2 :
    Try(consume(p2, "RightParen", "Expect ')' after while condition."),
        LAMBDA rp, p3 :
    Try(parse_statement(p3), LAMBDA body, p4 :
        Ok(WhileNode(condition, body), p4)))))

\* parse_if_statement that takes a failed else branch for no else branch.
parse_if_statement_else_dropped(p) ==
    Try(consume(p, "LeftParen", "Expect '(' after 'if'."),
        LAMBDA lp, p1 :
    Try(parse_expression(p1), LAMBDA condition, p2 :
    Try(consume(p2, "RightParen", "Expect ')' after if condition."),
        LAMBDA rp, p3 :
    Try(parse_statement(p3), LAMBDA then_branch, p4 :
        IfElse(match_token(p4, "Else"),
               LAMBDA p5 :
                   Ok(IfNode(condition, then_branch, parse_statement(p5).ret),
                      parse_statement(p5).self),
               LAMBDA p5 :
                   Ok(IfNode(condition, then_branch, None), p5))))))

parse_if_statement(p) ==
    Try(consume(p, "LeftParen", "Expect '(' after 'if'."),
        LAMBDA lp, p1 :
    Try(parse_expression(p1), LAMBDA condition, p2 :
    Try(consume(p2, "RightParen", "Expect ')' after if condition."),
        LAMBDA rp, p3 :
    Try(parse_statement(p3), LAMBDA then_branch, p4 :
        IfElse(match_token(p4, "Else"),
               LAMBDA p5 :
                   Try(parse_statement(p5), LAMBDA else_branch, p6 :
                       Ok(IfNode(condition, then_branch, Some(else_branch)),
                          p6)),
               LAMBDA p5 :
                   Ok(IfNode(condition, then_branch, None), p5))))))

parse_statement(p) ==
    IfElse(match_token(p, "If"), parse_if_statement, LAMBDA p1 :
        IfElse(match_token(p1, "While"), parse_while_statement, LAMBDA p2 :
            IfElse(match_token(p2, "Var"), parse_variable_declaration,
                   parse_expression)))

-----------------------------------------------------------------------------
(* Parser::new and the top-level loop of Parser::parse *)

Self == [current |-> current, diag |-> diag, trail |-> trail]

\* ParseStatementSome that inserts the statement at the front.
ParseStatementSome_prepend ==
    /\ pc = "parse"
    /\ ~is_at_end(Self)
    /\ LET r == parse_statement(Self)
       IN  /\ r.ret # None
           /\ statements' = <<r.ret[1]>> \o statements
           /\ current' = r.self.current
           /\ diag' = r.self.diag
           /\ trail' = r.self.trail
    /\ UNCHANGED <<source, tokens, pc>>
    /\ UNCHANGED elsewhere

\* One iteration of the loop whose parse_statement returns Some: push.
ParseStatementSome ==
    /\ pc = "parse"
    /\ ~is_at_end(Self)
    /\ LET r == parse_statement(Self)
       IN  /\ r.ret # None
           /\ statements' = Append(statements, r.ret[1])
           /\ current' = r.self.current
           /\ diag' = r.self.diag
           /\ trail' = r.self.trail
    /\ UNCHANGED <<source, tokens, pc>>
    /\ UNCHANGED elsewhere

\* ParseStatementNone that skips the offending token and goes on.
ParseStatementNone_skip ==
    /\ pc = "parse"
    /\ ~is_at_end(Self)
    /\ LET r == parse_statement(Self)
       IN  /\ r.ret = None
           /\ current' = advance(r.self).self.current
           /\ diag' = r.self.diag
           /\ trail' = r.self.trail
    /\ UNCHANGED <<source, tokens, statements, pc>>
    /\ UNCHANGED elsewhere

\* ParseStatementNone that goes on with the loop instead of leaving it.
ParseStatementNone_continue ==
    /\ pc = "parse"
    /\ ~is_at_end(Self)
    /\ LET r == parse_statement(Self)
       IN  /\ r.ret = None
           /\ current' = r.self.current
           /\ diag' = r.self.diag
           /\ trail' = r.self.trail
    /\ UNCHANGED <<source, tokens, statements, pc>>
    /\ UNCHANGED elsewhere

\* ParseStatementNone that puts the cursor back where the statement began.
ParseStatementNone_rewind ==
    /\ pc = "parse"
    /\ ~is_at_end(Self)
    /\ LET r == parse_statement(Self)
       IN  /\ r.ret = None
           /\ current' = current
           /\ diag' = r.self.diag
           /\ trail' = r.self.trail
    /\ pc' = "break"
    /\ UNCHANGED <<source, tokens, statements>>
    /\ UNCHANGED elsewhere

\* One iteration of the loop whose parse_statement returns None: break.
ParseStatementNone ==
    /\ pc = "parse"
    /\ ~is_at_end(Self)
    /\ LET r == parse_statement(Self)
       IN  /\ r.ret = None
           /\ current' = r.self.current
           /\ diag' = r.self.diag
           /\ trail' = r.self.trail
    /\ pc' = "break"
    /\ UNCHANGED <<source, tokens, statements>>
    /\ UNCHANGED elsewhere

\* The loop condition is false: the program is returned.
ParseAtEnd ==
    /\ pc = "parse"
    /\ is_at_end(Self)
    /\ pc' = "eof"
    /\ UNCHANGED <<source, tokens, current, statements, diag>>
    /\ UNCHANGED <<trail, elsewhere>>

\* main: the lexer runs over the source and the parser is built on its tokens.
Tokenize ==
    /\ pc = "lex"
    /\ tokens' = tokenize(source).tokens
    /\ diag' = diag \o tokenize(source).errors
    /\ pc' = "parse"
    /\ UNCHANGED <<source, current, statements>>
    /\ UNCHANGED <<trail, elsewhere>>

-----------------------------------------------------------------------------
(* The parts of the state a specification does not run *)

NoParser ==
    /\ source = <<>>
    /\ tokens = <<>>
    /\ current = 0
    /\ statements = <<>>
    /\ diag = <<>>
    /\ trail = <<>>

NoOutput == output = <<>>

NoTensor == t1 = None /\ t2 = None /\ outcome = None /\ calls = 0

NoZom ==
    /\ lines = <<>>
    /\ line_no = 0
    /\ config = None
    /\ current_section = <<>>
    /\ zom_result = None

-----------------------------------------------------------------------------
(* tensor.rs: a flat buffer of f64 and a shape.  The elements are small
   integers, on which the f64 arithmetic of the model's cases is exact. *)

MaxRank == 2
MaxDim == 2
MaxCalls == 2

Tensor(data, shape) == [data |-> data, shape |-> shape]

\* How a call ends: it returns a value to its caller, or it panics and the
\* process aborts.
Returned(value) == [kind |-> "return", value |-> value]
Panic(message) == [kind |-> "panic", message |-> message]

\* Result<T, String>
ResultOk(value) == [ok |-> TRUE, value |-> value]
ResultErr(error) == [ok |-> FALSE, error |-> error]

\* shape.iter().product()
RECURSIVE product(_)
product(shape) ==
    IF shape = <<>> THEN 1 ELSE Head(shape) * product(Tail(shape))

Tensor_new(data, shape) ==
    IF Len(data) # product(shape)
    THEN Panic("assertion failed: left == right")
    ELSE Returned(Tensor(data, shape))

\* The loop of compute_index over the dimensions, last one first.
RECURSIVE compute_index_loop(_, _, _, _, _)
compute_index_loop(shape, indices, k, index, multiplier) ==
    IF k = 0 THEN Some(index)
    ELSE IF indices[k] >= shape[k] THEN None
    ELSE compute_index_loop(shape, indices, k - 1,
                            index + indices[k] * multiplier,
                            multiplier * shape[k])

compute_index(t, indices) ==
    IF Len(indices) # Len(t.shape) THEN None
    ELSE compute_index_loop(t.shape, indices, Len(t.shape), 0, 1)

\* Vec::get / Vec::get_mut: an element (0-based) or None.
data_get(data, index) ==
    IF index < Len(data) THEN Some(data[index + 1]) ELSE None

get(t, indices) ==
    IF compute_index(t, indices) = None THEN Returned(None)
    ELSE Returned(data_get(t.data, compute_index(t, indices)[1]))

\* set returns its Result and the tensor after the call.
set(t, indices, value) ==
    IF compute_index(t, indices) = None
    THEN [ret |-> Returned(ResultErr("Invalid indices")), self |-> t]
    ELSE IF data_get(t.data, compute_index(t, indices)[1]) # None
    THEN [ret |-> Returned(ResultOk(<<>>)),
          self |-> [t EXCEPT !.data[compute_index(t, indices)[1] + 1]
                                 = value]]
    ELSE [ret |-> Returned(ResultErr("Index out of bounds")), self |-> t]

\* sum over k in from..p-1 of self.data[i * p + k] * other.data[k * n + j]
RECURSIVE matmul_sum(_, _, _, _, _, _, _)
matmul_sum(a, b, i, j, from, p, n) ==
    IF from >= p THEN 0
    ELSE a.data[i * p + from + 1] * b.data[from * n + j + 1]
         + matmul_sum(a, b, i, j, from + 1, p, n)

matmul_data(a, b, m, n, p) ==
    [x \in 1..(m * n) |->
        matmul_sum(a, b, (x - 1) \div n, (x - 1) % n, 0, p, n)]

\* Ok(Tensor::new(..)): a panic of Tensor::new is a panic of the caller.
wrap_ok(made) ==
    IF made.kind = "panic" THEN made ELSE Returned(ResultOk(made.value))

matmul(a, b) ==
    IF Len(a.shape) # 2 \/ Len(b.shape) # 2
    THEN Returned(ResultErr(
             "Both tensors must be 2-dimensional for matrix multiplication"))
    ELSE IF a.shape[2] # b.shape[1]
    THEN Returned(ResultErr(
             "Inner dimensions must match for matrix multiplication"))
    ELSE wrap_ok(Tensor_new(
             matmul_data(a, b, a.shape[1], b.shape[2], a.shape[2]),
             <<a.shape[1], b.shape[2]>>))

\* new_data[j * rows + i] = self.data[i * cols + j]
transpose_data(t, rows, cols) ==
    [x \in 1..Len(t.data) |->
        t.data[((x - 1) % rows) * cols + ((x - 1) \div rows) + 1]]

transpose(t) ==
    IF Len(t.shape) # 2
    THEN Panic("Transpose is currently only supported for 2D tensors")
    ELSE Tensor_new(transpose_data(t, t.shape[1], t.shape[2]),
                    <<t.shape[2], t.shape[1]>>)

\* iter().zip(..): as many pairs as the shorter buffer has.
zip_len(a, b) == IF Len(a.data) <= Len(b.data) THEN Len(a.data)
                 ELSE Len(b.data)

add(a, b) ==
    IF a.shape # b.shape THEN Panic("Shapes must match for addition")
    ELSE Tensor_new([i \in 1..zip_len(a, b) |-> a.data[i] + b.data[i]],
                    a.shape)

sub(a, b) ==
    IF a.shape # b.shape THEN Panic("Shapes must match for subtraction")
    ELSE Tensor_new([i \in 1..zip_len(a, b) |-> a.data[i] - b.data[i]],
                    a.shape)

mul(a, b) ==
    IF a.shape # b.shape
    THEN Panic("Shapes must match for element-wise multiplication")
    ELSE Tensor_new([i \in 1..zip_len(a, b) |-> a.data[i] * b.data[i]],
                    a.shape)

-----------------------------------------------------------------------------
(* A caller of tensor.rs, as demo_tensor_operations and the tests of
   tensor.rs call it: it holds two tensors and calls at most MaxCalls
   operations, one at a time; a panic aborts it. *)

Call(op, args, result) == Some([op |-> op, args |-> args, result |-> result])

after(result) == IF result.kind = "panic" THEN "abort" ELSE "tensor"

\* Shapes of at most MaxRank dimensions of at most MaxDim each (a dimension
\* may be 0), buffers 1, 2, 3, ... or 5, 6, 7, ... of any length up to one
\* more than the largest shape holds, multi-indices of up to MaxRank + 1
\* components.
Shapes == SeqsUpTo(0..MaxDim, MaxRank)
MaxVolume == product([k \in 1..MaxRank |-> MaxDim])
DataLengths == 0..(MaxVolume + 1)
Bases == {1, 5}
Iota(n, base) == [i \in 1..n |-> base + i - 1]
MultiIndices == SeqsUpTo(0..MaxDim, MaxRank + 1)
Values == {0, 9}

TensorNew ==
    /\ pc = "tensor"
    /\ calls < MaxCalls
    /\ calls' = calls + 1
    /\ \E shape \in Shapes, n \in DataLengths, base \in Bases,
          slot \in {1, 2} :
          LET r == Tensor_new(Iota(n, base), shape)
          IN  /\ outcome' = Call("new", <<Iota(n, base), shape>>, r)
              /\ pc' = after(r)
              /\ t1' = IF r.kind = "return" /\ slot = 1 THEN r.value ELSE t1
              /\ t2' = IF r.kind = "return" /\ slot = 2 THEN r.value ELSE t2
    /\ UNCHANGED <<parser_vars, output, zom_vars>>

TensorGet ==
    /\ pc = "tensor"
    /\ calls < MaxCalls
    /\ calls' = calls + 1
    /\ \E indices \in MultiIndices :
          /\ outcome' = Call("get", <<t1, indices>>, get(t1, indices))
          /\ pc' = after(get(t1, indices))
    /\ UNCHANGED <<t1, t2, parser_vars, output, zom_vars>>

TensorSet ==
    /\ pc = "tensor"
    /\ calls < MaxCalls
    /\ calls' = calls + 1
    /\ \E indices \in MultiIndices, value \in Values :
          LET r == set(t1, indices, value)
          IN  /\ outcome' = Call("set", <<t1, indices>>, r.ret)
              /\ t1' = r.self
              /\ pc' = after(r.ret)
    /\ UNCHANGED <<t2, parser_vars, output, zom_vars>>

TensorMatmul ==
    /\ pc = "tensor"
    /\ calls < MaxCalls
    /\ calls' = calls + 1
    /\ outcome' = Call("matmul", <<t1, t2>>, matmul(t1, t2))
    /\ pc' = after(matmul(t1, t2))
    /\ UNCHANGED <<t1, t2, parser_vars, output, zom_vars>>

TensorTranspose ==
    /\ pc = "tensor"
    /\ calls < MaxCalls
    /\ calls' = calls + 1
    /\ outcome' = Call("transpose", <<t1>>, transpose(t1))
    /\ pc' = after(transpose(t1))
    /\ UNCHANGED <<t1, t2, parser_vars, output, zom_vars>>

TensorAdd ==
    /\ pc = "tensor"
    /\ calls < MaxCalls
    /\ calls' = calls + 1
    /\ outcome' = Call("add", <<t1, t2>>, add(t1, t2))
    /\ pc' = after(add(t1, t2))
    /\ UNCHANGED <<t1, t2, parser_vars, output, zom_vars>>

TensorSub ==
    /\ pc = "tensor"
    /\ calls < MaxCalls
    /\ calls' = calls + 1
    /\ outcome' = Call("sub", <<t1, t2>>, sub(t1, t2))
    /\ pc' = after(sub(t1, t2))
    /\ UNCHANGED <<t1, t2, parser_vars, output, zom_vars>>

TensorMul ==
    /\ pc = "tensor"
    /\ calls < MaxCalls
    /\ calls' = calls + 1
    /\ outcome' = Call("mul", <<t1, t2>>, mul(t1, t2))
    /\ pc' = after(mul(t1, t2))
    /\ UNCHANGED <<t1, t2, parser_vars, output, zom_vars>>

\* let t1 = Tensor::new(vec![1.0, 2.0, 3.0, 4.0], vec![2, 2]);
\* let t2 = Tensor::new(vec![5.0, 6.0, 7.0, 8.0], vec![2, 2]);
InitTensor ==
    /\ NoParser /\ NoOutput /\ NoZom
    /\ t1 = Tensor(<<1, 2, 3, 4>>, <<2, 2>>)
    /\ t2 = Tensor(<<5, 6, 7, 8>>, <<2, 2>>)
    /\ outcome = None
    /\ calls = 0
    /\ pc = "tensor"

NextTensor ==
    \/ TensorNew \/ TensorGet \/ TensorSet \/ TensorMatmul
    \/ TensorTranspose \/ TensorAdd \/ TensorSub \/ TensorMul

SpecTensor == InitTensor /\ [][NextTensor]_vars

-----------------------------------------------------------------------------
(* zom_parser.rs: parse_zom_file.  A line is a sequence of one-character
   strings; reader.lines() yields, for each line, Ok(text) or an I/O
   error. *)

MaxLines == 3

is_whitespace(c) == c \in {" ", "\t", "\r", "\n"}

RECURSIVE trim_start(_)
trim_start(s) ==
    IF s # <<>> /\ is_whitespace(Head(s)) THEN trim_start(Tail(s)) ELSE s

RECURSIVE trim_end(_)
trim_end(s) ==
    IF s # <<>> /\ is_whitespace(s[Len(s)])
    THEN trim_end(SubSeq(s, 1, Len(s) - 1)) ELSE s

trim(s) == trim_end(trim_start(s))

starts_with(s, prefix) ==
    Len(s) >= Len(prefix) /\ SubSeq(s, 1, Len(prefix)) = prefix

\* s[n..]
slice_from(s, n) == SubSeq(s, n + 1, Len(s))

\* The position of the first c of s at or after i, Len(s) + 1 without one.
RECURSIVE find(_, _, _)
find(s, c, i) ==
    IF i > Len(s) \/ s[i] = c THEN i ELSE find(s, c, i + 1)

\* s.splitn(2, c): one part without a c, otherwise what is before the first
\* c and what is after it.
splitn2(s, c) ==
    IF find(s, c, 1) > Len(s) THEN <<s>>
    ELSE <<SubSeq(s, 1, find(s, c, 1) - 1), slice_from(s, find(s, c, 1))>>

\* trimmed[1..].splitn(2, ':').map(|s| s.trim()).collect()
entry_parts(trimmed) ==
    [k \in 1..Len(splitn2(slice_from(trimmed, 1), ":")) |->
        trim(splitn2(slice_from(trimmed, 1), ":")[k])]

\* HashMap::new and HashMap::insert: a map is a function on its keys.
HashMap_new == <<>>

insert(map, key, value) ==
    [k \in DOMAIN map \cup {key} |-> IF k = key THEN value ELSE map[k]]

\* "Project Info"
ProjectInfo ==
    <<"P", "r", "o", "j", "e", "c", "t", " ", "I", "n", "f", "o">>

\* "Dependencies"
Dependencies ==
    <<"D", "e", "p", "e", "n", "d", "e", "n", "c", "i", "e", "s">>

\* "Build Settings"
BuildSettings ==
    <<"B", "u", "i", "l", "d", " ", "S", "e", "t", "t", "i", "n", "g",
      "s">>

\* "Runtime Settings"
RuntimeSettings ==
    <<"R", "u", "n", "t", "i", "m", "e", " ", "S", "e", "t", "t", "i",
      "n", "g", "s">>

\* "Custom Settings"
CustomSettings ==
    <<"C", "u", "s", "t", "o", "m", " ", "S", "e", "t", "t", "i", "n",
      "g", "s">>


ProjectConfig_new ==
    [project_info |-> HashMap_new, dependencies |-> HashMap_new,
     build_settings |-> HashMap_new, runtime_settings |-> HashMap_new,
     custom_settings |-> HashMap_new]

\* match current_section.as_str() { .. _ => {} }
section_insert(cfg, section, key, value) ==
    CASE section = ProjectInfo ->
            [cfg EXCEPT !.project_info = insert(@, key, value)]
      [] section = Dependencies ->
            [cfg EXCEPT !.dependencies = insert(@, key, value)]
      [] section = BuildSettings ->
            [cfg EXCEPT !.build_settings = insert(@, key, value)]
      [] section = RuntimeSettings ->
            [cfg EXCEPT !.runtime_settings = insert(@, key, value)]
      [] section = CustomSettings ->
            [cfg EXCEPT !.custom_settings = insert(@, key, value)]
      [] OTHER -> cfg

\* The body of the for loop on one line: the section and the config after
\* it.
read_line(cfg, section, line) ==
    IF starts_with(trim(line), <<"#", "#">>)
    THEN [current_section |-> trim(slice_from(trim(line), 2)),
          config |-> cfg]
    ELSE IF starts_with(trim(line), <<"-">>)
              /\ Len(entry_parts(trim(line))) = 2
    THEN [current_section |-> section,
          config |-> section_insert(cfg, section,
                                    entry_parts(trim(line))[1],
                                    entry_parts(trim(line))[2])]
    ELSE [current_section |-> section, config |-> cfg]

\* One iteration of `for line in reader.lines()` on a line that was read.
ZomLine ==
    /\ pc = "zom"
    /\ line_no < Len(lines)
    /\ lines[line_no + 1].ok
    /\ LET r == read_line(config, current_section, lines[line_no + 1].value)
       IN  /\ current_section' = r.current_section
           /\ config' = r.config
    /\ line_no' = line_no + 1
    /\ UNCHANGED <<lines, zom_result, pc, parser_vars, output, tensor_vars>>

\* `let line = line?;` on a line that could not be read: the error is
\* returned.
ZomLineError ==
    /\ pc = "zom"
    /\ line_no < Len(lines)
    /\ ~lines[line_no + 1].ok
    /\ zom_result' = Some(ResultErr(lines[line_no + 1].error))
    /\ line_no' = line_no + 1
    /\ pc' = "zom_done"
    /\ UNCHANGED <<lines, config, current_section, parser_vars, output,
                   tensor_vars>>

\* The lines are exhausted: Ok(config).
ZomReturn ==
    /\ pc = "zom"
    /\ line_no = Len(lines)
    /\ zom_result' = Some(ResultOk(config))
    /\ pc' = "zom_done"
    /\ UNCHANGED <<lines, line_no, config, current_section, parser_vars,
                   output, tensor_vars>>

\* "## Project Info"
LineProjectInfo ==
    <<"#", "#", " ", "P", "r", "o", "j", "e", "c", "t", " ", "I", "n",
      "f", "o">>

\* "##Dependencies "
LineDependencies ==
    <<"#", "#", "D", "e", "p", "e", "n", "d", "e", "n", "c", "i", "e",
      "s", " ">>

\* "## Extras"
LineExtras ==
    <<"#", "#", " ", "E", "x", "t", "r", "a", "s">>

\* "- name: put"
LineName ==
    <<"-", " ", "n", "a", "m", "e", ":", " ", "p", "u", "t">>

\* "  - name : lang  "
LineNameAgain ==
    <<" ", " ", "-", " ", "n", "a", "m", "e", " ", ":", " ", "l", "a",
      "n", "g", " ", " ">>

\* "- version: 0.1:beta"
LineVersion ==
    <<"-", " ", "v", "e", "r", "s", "i", "o", "n", ":", " ", "0", ".",
      "1", ":", "b", "e", "t", "a">>

\* "- name"
LineNoColon ==
    <<"-", " ", "n", "a", "m", "e">>

\* "put-lang"
LineComment ==
    <<"p", "u", "t", "-", "l", "a", "n", "g">>

\* ""
LineEmpty ==
    <<>>

LinePool ==
    {ResultOk(text) :
         text \in {LineProjectInfo, LineDependencies, LineExtras, LineName,
                   LineNameAgain, LineVersion, LineNoColon, LineComment,
                   LineEmpty}}
    \cup {ResultErr("stream did not contain valid UTF-8")}

InitZom ==
    /\ NoParser /\ NoOutput /\ NoTensor
    /\ lines \in SeqsUpTo(LinePool, MaxLines)
    /\ line_no = 0
    /\ config = ProjectConfig_new
    /\ current_section = <<>>
    /\ zom_result = None
    /\ pc = "zom"

NextZom == ZomLine \/ ZomLineError \/ ZomReturn

SpecZom == InitZom /\ [][NextZom]_vars

-----------------------------------------------------------------------------
(* Reading a tree *)

Children(n) ==
    CASE n.kind = "Assignment" -> <<n.left, n.right>>
      [] n.kind = "BinaryOperation" -> <<n.left, n.right>>
      [] n.kind = "Parenthesis" -> <<n.expression>>
      [] n.kind = "If" -> <<n.condition, n.then_branch>> \o n.else_branch
      [] n.kind = "While" -> <<n.condition, n.body>>
      [] OTHER -> <<>>

\* Every node of the trees of a sequence of trees, parents first.
RECURSIVE NodeSeq(_)
NodeSeq(trees) ==
    IF trees = <<>> THEN <<>>
    ELSE <<Head(trees)>> \o NodeSeq(Children(Head(trees)))
         \o NodeSeq(Tail(trees))

IsAdditive(n) ==
    n.kind = "BinaryOperation" /\ n.operator \in {"Add", "Subtract"}

IsMultiplicative(n) ==
    n.kind = "BinaryOperation" /\ n.operator \in {"Multiply", "Divide"}

OperatorToken(operator) ==
    CASE operator = "Add" -> tPlus
      [] operator = "Subtract" -> tMinus
      [] operator = "Multiply" -> tStar
      [] operator = "Divide" -> tSlash

\* The source a tree stands for, a bare Variable read as an identifier.
RECURSIVE Unparse(_)
Unparse(n) ==
    CASE n.kind = "Variable" -> <<Token("Identifier", n.name, 1)>>
      [] n.kind = "Number" -> <<Token("Number", n.value, 1)>>
      [] n.kind = "BinaryOperation" ->
            Unparse(n.left) \o <<OperatorToken(n.operator)>>
            \o Unparse(n.right)
      [] n.kind = "Parenthesis" -> <<tLP>> \o Unparse(n.expression) \o <<tRP>>
      [] n.kind = "Assignment" ->
            <<tVar>> \o Unparse(n.left) \o <<tAssign>> \o Unparse(n.right)
            \o <<tSemi>>
      [] n.kind = "If" ->
            <<tIf, tLP>> \o Unparse(n.condition) \o <<tRP>>
            \o Unparse(n.then_branch)
            \o (IF n.else_branch = None THEN <<>>
                ELSE <<tElse>> \o Unparse(n.else_branch[1]))
      [] n.kind = "While" ->
            <<tWhile, tLP>> \o Unparse(n.condition) \o <<tRP>>
            \o Unparse(n.body)

RECURSIVE UnparseAll(_)
UnparseAll(trees) ==
    IF trees = <<>> THEN <<>>
    ELSE Unparse(Head(trees)) \o UnparseAll(Tail(trees))

-----------------------------------------------------------------------------
(* Inputs *)

Alphabet ==
    {tVar, tIf, tElse, tWhile, tId("a"), tNum(<<"4", "2">>),
     tNum(<<"1", ".", "5">>), tAssign, tSemi, tLP, tRP, tPlus, tMinus,
     tStar, tSlash, tEOF}

\* Every token sequence of at most MaxLen tokens, closed by EOF.  EOF is in
\* the alphabet: a sequence may hold an EOF before its last token.
ShortInputs == {Append(s, tEOF) : s \in SeqsUpTo(Alphabet, MaxLen)}

\* Operator chains  x1 op x2 op ... xn  of at most MaxOps operators over the
\* operands a, b, c, ... in this order, with no, one or two parenthesised
\* operand ranges (nested, equal or disjoint).
OperandNames == <<"a", "b", "c", "d", "e", "f", "g", "h">>
OpTokens == {tPlus, tMinus, tStar, tSlash}

Ranges(n) == {r \in (1..n) \X (1..n) : r[1] <= r[2]}

Compatible(r, s) ==
    \/ r[2] < s[1]
    \/ s[2] < r[1]
    \/ (r[1] <= s[1] /\ s[2] <= r[2])
    \/ (s[1] <= r[1] /\ r[2] <= s[2])

Groupings(n) ==
    {<<>>} \cup {<<r>> : r \in Ranges(n)}
           \cup {g \in Ranges(n) \X Ranges(n) : Compatible(g[1], g[2])}

Rep(tok, n) == [j \in 1..n |-> tok]

RECURSIVE RenderChain(_, _, _)
RenderChain(ops, groups, i) ==
    LET opens == Cardinality({j \in 1..Len(groups) : groups[j][1] = i})
        closes == Cardinality({j \in 1..Len(groups) : groups[j][2] = i})
        operand == Rep(tLP, opens) \o <<tId(OperandNames[i])>>
                   \o Rep(tRP, closes)
    IN  IF i > Len(ops) THEN operand
        ELSE operand \o <<ops[i]>> \o RenderChain(ops, groups, i + 1)

ChainInputs ==
    UNION {{Append(RenderChain(ops, g, 1), tEOF) :
                ops \in [1..k -> OpTokens], g \in Groupings(k + 1)} :
           k \in 0..MaxOps}

\* The named sources of the specification's worked examples.
n42 == tNum(<<"4", "2">>)
n5 == tNum(<<"5">>)
n2 == tNum(<<"2">>)
n3 == tNum(<<"3">>)
n1_5 == tNum(<<"1", ".", "5">>)
idX == tId("x")

\* var x = (42 + 5) * 2 - 3 / 1.5;
FullScenario ==
    <<tVar, idX, tAssign, tLP, n42, tPlus, n5, tRP, tStar, n2, tMinus, n3,
      tSlash, n1_5, tSemi, tEOF>>

\* var x = 42 + 5;
BasicScenario == <<tVar, idX, tAssign, n42, tPlus, n5, tSemi, tEOF>>

\* var x = ;
MissingExpr == <<tVar, idX, tAssign, tSemi, tEOF>>

\* var x;
BareDeclaration == <<tVar, idX, tSemi, tEOF>>

Scenarios == {FullScenario, BasicScenario, MissingExpr, BareDeclaration}

\* Sequences of at most MaxStmts statements, each with its source and its
\* tree.
Statement(src, node) == [src |-> src, node |-> node]

idA == tId("a")
idB == tId("b")
idC == tId("c")
VarA == VariableNode(<<"a">>, "Integer")
VarB == VariableNode(<<"b">>, "Integer")
VarC == VariableNode(<<"c">>, "Integer")
Num42 == NumberNode(<<"4", "2">>, "Integer")

StatementPool ==
    {Statement(<<tVar, idA, tSemi>>, VarA),
     Statement(<<tVar, idB, tAssign, n42, tSemi>>,
               AssignmentNode(VarB, Num42)),
     Statement(<<idC>>, VarC),
     Statement(<<idA, tPlus, n42>>,
               BinaryOperationNode(VarA, "Add", Num42)),
     Statement(<<tLP, idB, tRP>>, ParenthesisNode(VarB)),
     Statement(<<tIf, tLP, idA, tRP, idB>>, IfNode(VarA, VarB, None)),
     Statement(<<tIf, tLP, idA, tRP, idB, tElse, idC>>,
               IfNode(VarA, VarB, Some(VarC))),
     Statement(<<tWhile, tLP, idA, tRP, idB>>, WhileNode(VarA, VarB)),
     Statement(<<tWhile, tLP, idC, tRP, tVar, idA, tSemi>>,
               WhileNode(VarC, VarA))}

StatementSeqs == SeqsUpTo(StatementPool, MaxStmts)

Nodes(ss) == [i \in 1..Len(ss) |-> ss[i].node]

\* The statements written one after another: `;` only where a declaration
\* ends with it.
RECURSIVE Juxtaposed(_)
Juxtaposed(ss) ==
    IF ss = <<>> THEN <<>> ELSE Head(ss).src \o Juxtaposed(Tail(ss))

\* The statements separated by `;`: a `;` between two statements, the one
\* that ends a declaration serving as such.
RECURSIVE Separated(_)
Separated(ss) ==
    IF Len(ss) <= 1 THEN Juxtaposed(ss)
    ELSE Head(ss).src
         \o (IF Head(ss).src[Len(Head(ss).src)] = tSemi
             THEN <<>> ELSE <<tSemi>>)
         \o Separated(Tail(ss))

JuxtaposedCases ==
    {[tokens |-> Append(Juxtaposed(ss), tEOF), nodes |-> Nodes(ss)] :
         ss \in StatementSeqs}

SeparatedCases ==
    {[tokens |-> Append(Separated(ss), tEOF), nodes |-> Nodes(ss)] :
         ss \in StatementSeqs}

\* var x = CHAIN ;  and the same without the closing `;`.
DeclarationInputs ==
    UNION {{<<tVar, idX, tAssign>> \o SubSeq(c, 1, Len(c) - 1)
                \o <<tSemi, tEOF>>,
            <<tVar, idX, tAssign>> \o c} : c \in ChainInputs}

\* Number literals with and without a `.`, alone, as operands, as an
\* initializer and inside an if statement.
NumberLexemes ==
    {<<"3">>, <<"3", ".", "0">>, <<"1", ".", "5">>, <<"0", ".", "5">>,
     <<"4", "2">>}

TypeTagInputs ==
    UNION {{<<tNum(m), tEOF>>,
            <<tNum(m), tPlus, tNum(n), tEOF>>,
            <<idX, tStar, tNum(m), tSlash, tNum(n), tEOF>>,
            <<tVar, idX, tAssign, tNum(m), tSemi, tNum(n), tEOF>>,
            <<tIf, tLP, idA, tRP, tNum(m), tElse, tNum(n), tEOF>>} :
           m \in NumberLexemes, n \in NumberLexemes}

\* If statements nested at most MaxNest deep, with and without else: the
\* sources of these trees, and the same sources with one token left out.
idD == tId("d")
VarD == VariableNode(<<"d">>, "Integer")

RECURSIVE IfTrees(_)
IfTrees(n) ==
    IF n = 0 THEN {VarC}
    ELSE LET R == IfTrees(n - 1)
         IN  R \cup {IfNode(VarA, t, None) : t \in R}
               \cup {IfNode(VarA, t, Some(e)) : t \in R, e \in R}

Without(s, k) == SubSeq(s, 1, k - 1) \o SubSeq(s, k + 1, Len(s))

\* if (a) b
IfThen == <<tIf, tLP, idA, tRP, idB, tEOF>>

\* if (a) b else c
IfThenElse == <<tIf, tLP, idA, tRP, idB, tElse, idC, tEOF>>

\* if (a) if (b) c else d
DanglingElse ==
    <<tIf, tLP, idA, tRP, tIf, tLP, idB, tRP, idC, tElse, idD, tEOF>>

\* if (a) while (b) if (a) c else d
ElseThroughWhile ==
    <<tIf, tLP, idA, tRP, tWhile, tLP, idB, tRP, tIf, tLP, idA, tRP, idC,
      tElse, idD, tEOF>>

\* If statements that fail: in the `(`, in the condition, in the `)`, in
\* the then branch, in the else branch, and the same inside a branch.
FailingIfs ==
    {<<tIf, idA, tRP, idB, tEOF>>,
     <<tIf, tLP, tRP, idB, tEOF>>,
     <<tIf, tLP, idA, tPlus, tRP, idB, tEOF>>,
     <<tIf, tLP, idA, idB, tEOF>>,
     <<tIf, tLP, idA, tRP, tEOF>>,
     <<tIf, tLP, idA, tRP, tSemi, tEOF>>,
     <<tIf, tLP, idA, tRP, idB, tElse, tEOF>>,
     <<tIf, tLP, idA, tRP, idB, tElse, tSemi, idC, tEOF>>,
     <<tIf, tLP, idA, tRP, tIf, tLP, idB, idC, tEOF>>,
     <<tIf, tLP, idA, tRP, idB, tElse, tIf, tLP, idB, tRP, tEOF>>,
     <<tIf, tLP, idA, tRP, tIf, tLP, idB, tRP, idC, tElse, tStar, tEOF>>}

IfInputs ==
    {Append(Unparse(t), tEOF) : t \in IfTrees(MaxNest)}
    \cup UNION {{Append(Without(Unparse(t), k), tEOF) :
                     k \in 1..Len(Unparse(t))} : t \in IfTrees(MaxNest)}
    \cup {IfThen, IfThenElse, DanglingElse, ElseThroughWhile}
    \cup {Without(ElseThroughWhile, k) : k \in 1..(Len(ElseThroughWhile) - 1)}
    \cup FailingIfs \cup {<<idC>> \o f : f \in FailingIfs}

Inputs ==
    ShortInputs \cup ChainInputs \cup DeclarationInputs \cup Scenarios
    \cup {c.tokens : c \in JuxtaposedCases} \cup TypeTagInputs

Init ==
    /\ source = <<>>
    /\ tokens \in Inputs
    /\ current = 0
    /\ statements = <<>>
    /\ diag = <<>>
    /\ trail = <<>>
    /\ NoOutput /\ NoTensor /\ NoZom
    /\ pc = "parse"

Next == ParseStatementSome \/ ParseStatementNone \/ ParseAtEnd

Spec == Init /\ [][Next]_vars

-----------------------------------------------------------------------------
(* Parsing sequences of statements *)

InitOrder ==
    /\ source = <<>>
    /\ tokens \in {c.tokens : c \in JuxtaposedCases \cup SeparatedCases}
    /\ current = 0
    /\ statements = <<>>
    /\ diag = <<>>
    /\ trail = <<>>
    /\ NoOutput /\ NoTensor /\ NoZom
    /\ pc = "parse"

SpecOrder == InitOrder /\ [][Next]_vars

-----------------------------------------------------------------------------
(* Parsing if statements *)

InitIf ==
    /\ source = <<>>
    /\ tokens \in IfInputs
    /\ current = 0
    /\ statements = <<>>
    /\ diag = <<>>
    /\ trail = <<>>
    /\ NoOutput /\ NoTensor /\ NoZom
    /\ pc = "parse"

SpecIf == InitIf /\ [][Next]_vars

-----------------------------------------------------------------------------
(* The pipeline of main: lexer, then parser *)

\* var x = (42 + 5) * 2 - 3 / 1.5;
FullSource ==
    <<"v", "a", "r", " ", "x", " ", "=", " ", "(", "4", "2", " ", "+", " ",
      "5", ")", " ", "*", " ", "2", " ", "-", " ", "3", " ", "/", " ", "1",
      ".", "5", ";">>

\* var x = 42 + 5;
BasicSource ==
    <<"v", "a", "r", " ", "x", " ", "=", " ", "4", "2", " ", "+", " ", "5",
      ";">>

SourceAlphabet == {"i", "f", "x", "1", ".", "+", " ", "\n", ";", "@"}

Sources == {FullSource, BasicSource} \cup SeqsUpTo(SourceAlphabet, MaxSrcLen)

InitLex ==
    /\ source \in Sources
    /\ tokens = <<>>
    /\ current = 0
    /\ statements = <<>>
    /\ diag = <<>>
    /\ trail = <<>>
    /\ NoOutput /\ NoTensor /\ NoZom
    /\ pc = "lex"

NextLex == Tokenize \/ Next

SpecLex == InitLex /\ [][NextLex]_vars

\* Parser::parse runs to its return: a single thread that is never suspended.
SpecFair == Spec /\ WF_vars(Next)

-----------------------------------------------------------------------------
(* main.rs: the AST printed after the parse.  A line of stdout is its
   indentation (the number of "  " written first) and its text, the text
   being the words of the format string and its arguments. *)

Line(indent, text) == [indent |-> indent, text |-> text]

RECURSIVE print_statement(_, _)
print_statement(statement, indent) ==
    CASE statement.kind = "Assignment" ->
            <<Line(indent, <<"AssignmentNode">>)>>
            \o print_statement(statement.left, indent + 1)
            \o print_statement(statement.right, indent + 1)
      [] statement.kind = "Variable" ->
            <<Line(indent, <<"VariableNode", statement.name>>)>>
      [] statement.kind = "Number" ->
            <<Line(indent, <<"NumberNode", statement.value>>)>>
      [] statement.kind = "BinaryOperation" ->
            <<Line(indent, <<"BinaryOperationNode", statement.operator>>)>>
            \o print_statement(statement.left, indent + 1)
            \o print_statement(statement.right, indent + 1)
      [] statement.kind = "Parenthesis" ->
            <<Line(indent, <<"ParenthesisNode">>)>>
            \o print_statement(statement.expression, indent + 1)
      [] OTHER -> <<Line(indent, <<"Unknown node type">>)>>

\* for statement in program.statements { print_statement(&statement, 0); }
RECURSIVE print_statements(_)
print_statements(stmts) ==
    IF stmts = <<>> THEN <<>>
    ELSE print_statement(Head(stmts), 0) \o print_statements(Tail(stmts))

\* main, after parser.parse() has returned the program.
PrintAST ==
    /\ pc \in {"eof", "break"}
    /\ output' = IF statements = <<>>
                 THEN <<Line(0, <<"Failed to parse any statements.">>)>>
                 ELSE print_statements(statements)
    /\ pc' = "printed"
    /\ UNCHANGED <<parser_vars, tensor_vars, zom_vars>>

NextPrint == Next \/ PrintAST

SpecPrint == InitOrder /\ [][NextPrint]_vars

-----------------------------------------------------------------------------
(* What has been parsed, against what has been consumed *)

Consumed == SubSeq(tokens, 1, current)

\* No declaration among the consumed tokens: every Variable node is an
\* identifier of an expression.
NoDeclaration == \A i \in 1..current : tokens[i].token_type # "Var"

\* The statements parsed so far, read back in order, are the tokens consumed.
Faithful ==
    (pc # "break" /\ NoDeclaration) => UnparseAll(statements) = Consumed

Var(name) == VariableNode(<<name>>, "Integer")
IntLit(lexeme) == NumberNode(lexeme, "Integer")
FloatLit(lexeme) == NumberNode(lexeme, "Float")
Bin(left, operator, right) == BinaryOperationNode(left, operator, right)

Chain(ops, groups) == Append(RenderChain(ops, groups, 1), tEOF)

-----------------------------------------------------------------------------
(* C4: precedence *)

\* a + b * c
APlusBTimesC == Chain(<<tPlus, tStar>>, <<>>)

\* C4: `a + b * c` parses to Add(a, Multiply(b, c)); in every parsed tree no
\* operand of a Multiply or Divide node is an Add or Subtract node (an
\* additive operation is below a multiplicative one only inside a
\* Parenthesis node).
Precedence ==
    /\ (tokens = APlusBTimesC /\ pc = "eof") =>
           statements = <<Bin(Var("a"), "Add",
                              Bin(Var("b"), "Multiply", Var("c")))>>
    /\ tokens = APlusBTimesC => pc # "break"
    /\ \A i \in 1..Len(NodeSeq(statements)) :
           LET n == NodeSeq(statements)[i]
           IN  IsMultiplicative(n) =>
                   ~IsAdditive(n.left) /\ ~IsAdditive(n.right)

PrecedenceWitness ==
    /\ tokens = APlusBTimesC
    /\ pc = "eof"
    /\ Len(statements) = 1
    /\ IsAdditive(statements[1])
    /\ IsMultiplicative(statements[1].right)

-----------------------------------------------------------------------------
(* C5: left associativity *)

\* a - b - c
AMinusBMinusC == Chain(<<tMinus, tMinus>>, <<>>)

\* a / b * c
ADivBTimesC == Chain(<<tSlash, tStar>>, <<>>)

\* C5: `a - b - c` parses to Subtract(Subtract(a, b), c) and `a / b * c` to
\* Multiply(Divide(a, b), c); in every parsed tree the right operand of an
\* Add or Subtract node is never an Add or Subtract node and the right
\* operand of a Multiply or Divide node is never a binary operation, and
\* the tree read back in order is the source (so a chain of one level is
\* the left fold of its operands).
LeftAssociative ==
    /\ (tokens = AMinusBMinusC /\ pc = "eof") =>
           statements = <<Bin(Bin(Var("a"), "Subtract", Var("b")),
                              "Subtract", Var("c"))>>
    /\ (tokens = ADivBTimesC /\ pc = "eof") =>
           statements = <<Bin(Bin(Var("a"), "Divide", Var("b")),
                              "Multiply", Var("c"))>>
    /\ tokens \in {AMinusBMinusC, ADivBTimesC} => pc # "break"
    /\ \A i \in 1..Len(NodeSeq(statements)) :
           LET n == NodeSeq(statements)[i]
           IN  /\ IsAdditive(n) => ~IsAdditive(n.right)
               /\ IsMultiplicative(n) => n.right.kind # "BinaryOperation"
    /\ Faithful

LeftAssociativeWitness ==
    /\ tokens = AMinusBMinusC
    /\ pc = "eof"
    /\ Len(statements) = 1
    /\ IsAdditive(statements[1])
    /\ IsAdditive(statements[1].left)

-----------------------------------------------------------------------------
(* C6: grouping *)

\* (a + b) * c
GroupedSum == Chain(<<tPlus, tStar>>, <<<<1, 2>>>>)

ParenthesisNodes ==
    Cardinality({i \in 1..Len(NodeSeq(statements)) :
                     NodeSeq(statements)[i].kind = "Parenthesis"})

\* The `(` among the consumed tokens that open a parenthesised expression:
\* every `(` but the one that follows `if` or `while`.
GroupingParens ==
    Cardinality({i \in 1..current :
                     /\ tokens[i].token_type = "LeftParen"
                     /\ (i = 1 \/ tokens[i - 1].token_type
                                     \notin {"If", "While"})})

-----------------------------------------------------------------------------
(* C2: stop at the first error *)

StatementFails ==
    pc = "parse" /\ ~is_at_end(Self) /\ parse_statement(Self).ret = None

\* C2: every step of Parser::parse is taken inside the loop; a step whose
\* parse_statement fails leaves the loop (the program is returned) with the
\* statements exactly as they were, and any other step keeps the statements
\* parsed before it as a prefix.  No step follows the return, so no token
\* after the failure is parsed.
StopAtFirstError ==
    [][/\ pc = "parse"
       /\ StatementFails => (pc' = "break" /\ statements' = statements)
       /\ Len(statements') >= Len(statements)
       /\ SubSeq(statements', 1, Len(statements)) = statements]_vars

StopAtFirstErrorWitness ==
    /\ pc = "break"
    /\ Len(statements) = 1
    /\ \E i \in (current + 2)..Len(tokens) :
           tokens[i].token_type = "Identifier"

-----------------------------------------------------------------------------
(* C3: termination *)

\* C3: Parser::parse returns (by the end of the tokens or by a break):
\* every iteration that stays in the loop has moved the cursor forward, and
\* an iteration whose statement fails leaves the loop.
Termination ==
    /\ <>(pc \in {"eof", "break"})
    /\ [][/\ (pc = "parse" /\ pc' = "parse") => current' > current
          /\ StatementFails => pc' = "break"]_vars

TerminationWitness ==
    /\ pc = "eof"
    /\ Len(statements) >= 2
    /\ current = Len(tokens) - 1

-----------------------------------------------------------------------------
(* C7: variable declarations *)

\* The first statement has been parsed and nothing after it.
AfterFirst == Len(statements) = 1 /\ pc # "break"

\* C7: for a source that starts with `var`:  `var NAME ;` gives the bare
\* Variable(NAME) as first statement;  `var NAME = EXPR ;` gives
\* Assignment(Variable(NAME), tree of EXPR), EXPR being the tokens between
\* `=` and the closing `;`;  without a name, or without the `;`, no node is
\* produced.  `var x = 42 + 5;` and `var x;` give exactly one statement.
DeclarationShape ==
    /\ tokens[1].token_type = "Var" =>
        /\ tokens[2].token_type # "Identifier" =>
               statements = <<>> /\ pc # "eof"
        /\ (tokens[2].token_type = "Identifier"
              /\ tokens[3].token_type \notin {"Semicolon", "Assign"}) =>
               statements = <<>> /\ pc # "eof"
        /\ (tokens[2].token_type = "Identifier"
              /\ tokens[3].token_type = "Semicolon"
              /\ (current > 0 \/ pc # "parse")) =>
               /\ Len(statements) >= 1
               /\ statements[1] = VariableNode(tokens[2].lexeme, "Integer")
        /\ (AfterFirst /\ tokens[3].token_type = "Assign") =>
               /\ statements[1].kind = "Assignment"
               /\ statements[1].left
                      = VariableNode(tokens[2].lexeme, "Integer")
               /\ tokens[current].token_type = "Semicolon"
               /\ Unparse(statements[1].right)
                      = SubSeq(tokens, 4, current - 1)
        /\ AfterFirst => tokens[current].token_type = "Semicolon"
    /\ (tokens = BasicScenario /\ pc # "parse") =>
           /\ pc = "eof"
           /\ statements = <<AssignmentNode(
                                 Var("x"),
                                 Bin(IntLit(<<"4", "2">>), "Add",
                                     IntLit(<<"5">>)))>>
    /\ (tokens = BareDeclaration /\ pc # "parse") =>
           pc = "eof" /\ statements = <<Var("x")>>

DeclarationShapeWitness ==
    /\ tokens = BasicScenario
    /\ pc = "eof"
    /\ Len(statements) = 1
    /\ statements[1].kind = "Assignment"

-----------------------------------------------------------------------------
(* C8: the worked scenario, parsed *)

FullScenarioTree ==
    AssignmentNode(
        Var("x"),
        Bin(Bin(ParenthesisNode(Bin(IntLit(<<"4", "2">>), "Add",
                                    IntLit(<<"5">>))),
                "Multiply", IntLit(<<"2">>)),
            "Subtract",
            Bin(IntLit(<<"3">>), "Divide", FloatLit(<<"1", ".", "5">>))))

\* C8: the tokens of `var x = (42 + 5) * 2 - 3 / 1.5;` parse, without a
\* failure, to exactly one statement: the Assignment to Variable(x) of
\* Subtract(Multiply(Parenthesis(Add(42, 5)), 2), Divide(3, 1.5)).
FullScenarioParse ==
    tokens = FullScenario =>
        /\ pc # "break"
        /\ pc = "eof" => statements = <<FullScenarioTree>>

FullScenarioParseWitness ==
    tokens = FullScenario /\ pc = "eof" /\ Len(statements) = 1

-----------------------------------------------------------------------------
(* C10: early stop with a diagnostic *)

\* C10: when Parser::parse has stopped on a failed statement at least one
\* diagnostic has been written; when it has reached EOF without a failure
\* none has; the tokens of `var x = ;` give no statement and a diagnostic.
EarlyStopDiagnostic ==
    /\ pc = "break" => Len(diag) >= 1
    /\ pc = "eof" => diag = <<>>
    /\ (tokens = MissingExpr /\ pc # "parse") =>
           pc = "break" /\ statements = <<>> /\ Len(diag) >= 1

EarlyStopDiagnosticWitness ==
    /\ tokens = MissingExpr
    /\ pc = "break"
    /\ statements = <<>>
    /\ Len(diag) = 1

-----------------------------------------------------------------------------
(* C1: order of the statements *)

\* C1, as amended: for N valid statements written one after another, with
\* `;` only where it ends a var declaration, the parse does not fail and
\* returns exactly the N statements, in source order; before it returns,
\* the statements parsed so far are the first ones of the source, in order.
OrderPreserved ==
    \A c \in JuxtaposedCases :
        tokens = c.tokens =>
            /\ pc # "break"
            /\ pc = "eof" => statements = c.nodes
            /\ Len(statements) <= Len(c.nodes)
            /\ statements = SubSeq(c.nodes, 1, Len(statements))

OrderPreservedWitness ==
    /\ pc = "eof"
    /\ Len(statements) = 2
    /\ statements[1].kind = "If"
    /\ statements[2].kind = "Assignment"

\* C1, as stated: for N valid statements (if, while, declaration or
\* expression statements) separated by `;`, the program returned holds the
\* N statements in source order.
OrderPreservedSeparated ==
    \A c \in SeparatedCases :
        (tokens = c.tokens /\ pc # "parse") => statements = c.nodes

-----------------------------------------------------------------------------
(* C9: the worked scenario, lexed *)

EOFCount ==
    Cardinality({i \in 1..Len(tokens) : tokens[i].token_type = "EOF"})

\* C9, as amended: `var x = (42 + 5) * 2 - 3 / 1.5;` tokenizes to 16 tokens
\* (var, x, =, (, 42, +, 5, ), *, 2, -, 3, /, 1.5, ; and EOF): one token for
\* each keyword, identifier, number and operator, none for the blanks; every
\* tokenized source ends with its only EOF token.
LexFullScenario ==
    pc # "lex" =>
        /\ tokens[Len(tokens)].token_type = "EOF"
        /\ EOFCount = 1
        /\ source = FullSource =>
               /\ Len(tokens) = 16
               /\ tokens = FullScenario
               /\ diag = <<>> \/ pc = "break"

LexFullScenarioWitness ==
    source = FullSource /\ pc = "parse" /\ current = 0 /\ Len(tokens) = 16

\* C9, as stated: the source tokenizes to 17 tokens, the last being the
\* single EOF.
LexFullScenario17 ==
    (source = FullSource /\ pc # "lex") =>
        /\ Len(tokens) = 17
        /\ tokens[Len(tokens)].token_type = "EOF"
        /\ EOFCount = 1

-----------------------------------------------------------------------------
(* C11: default type tagging *)

IsNumberNode(n) == n.kind = "Number"
IsVariableNode(n) == n.kind = "Variable"
IsNumberToken(t) == t.token_type = "Number"
IsIdentifierToken(t) == t.token_type = "Identifier"

Lexemes(ts) == [i \in 1..Len(ts) |-> ts[i].lexeme]
NumberValues(ns) == [i \in 1..Len(ns) |-> ns[i].value]
VariableNames(ns) == [i \in 1..Len(ns) |-> ns[i].name]

HasDot(lexeme) == \E i \in DOMAIN lexeme : lexeme[i] = "."

\* C11: every Number node is tagged Float if its text holds a `.` and
\* Integer otherwise, and every Variable node is tagged Integer; as long as
\* no statement has failed, the texts of the Number nodes are, in order, the
\* lexemes of the Number tokens consumed, and the names of the Variable
\* nodes the lexemes of the Identifier tokens consumed (declared names and
\* identifiers of expressions alike).  `3` is Integer, `3.0` and `1.5` are
\* Float.
DefaultTypeTagging ==
    /\ \A i \in 1..Len(NodeSeq(statements)) :
           LET n == NodeSeq(statements)[i]
           IN  /\ IsNumberNode(n) =>
                      n.data_type = (IF HasDot(n.value) THEN "Float"
                                     ELSE "Integer")
               /\ IsVariableNode(n) => n.data_type = "Integer"
    /\ pc # "break" =>
           /\ NumberValues(SelectSeq(NodeSeq(statements), IsNumberNode))
                  = Lexemes(SelectSeq(Consumed, IsNumberToken))
           /\ VariableNames(SelectSeq(NodeSeq(statements), IsVariableNode))
                  = Lexemes(SelectSeq(Consumed, IsIdentifierToken))
    /\ (tokens = <<tNum(<<"3">>), tEOF>> /\ pc = "eof") =>
           statements = <<NumberNode(<<"3">>, "Integer")>>
    /\ (tokens = <<tNum(<<"3", ".", "0">>), tEOF>> /\ pc = "eof") =>
           statements = <<NumberNode(<<"3", ".", "0">>, "Float")>>
    /\ (tokens = <<tNum(<<"1", ".", "5">>), tEOF>> /\ pc = "eof") =>
           statements = <<NumberNode(<<"1", ".", "5">>, "Float")>>

DefaultTypeTaggingWitness ==
    /\ tokens = <<tVar, idX, tAssign, tNum(<<"3", ".", "0">>), tSemi,
                  tNum(<<"3">>), tEOF>>
    /\ pc = "eof"
    /\ statements = <<AssignmentNode(Var("x"),
                                     FloatLit(<<"3", ".", "0">>)),
                      IntLit(<<"3">>)>>

-----------------------------------------------------------------------------
(* C12: structural errors of the tensor operations *)

\* The operands of a call are structurally wrong for its operation.
StructuralError(c) ==
    CASE c.op \in {"add", "sub", "mul"} -> c.args[1].shape # c.args[2].shape
      [] c.op = "matmul" ->
            \/ Len(c.args[1].shape) # 2
            \/ Len(c.args[2].shape) # 2
            \/ c.args[1].shape[2] # c.args[2].shape[1]
      [] c.op = "transpose" -> Len(c.args[1].shape) # 2
      [] c.op \in {"get", "set"} ->
            \/ Len(c.args[2]) # Len(c.args[1].shape)
            \/ \E k \in 1..Len(c.args[2]) : c.args[2][k] >= c.args[1].shape[k]
      [] OTHER -> FALSE

\* The call returned a failure value: None of an Option, Err of a Result.
\* A call that returns a Tensor has no failure value to return.
ExplicitFailure(c) ==
    /\ c.result.kind = "return"
    /\ CASE c.op = "get" -> c.result.value = None
         [] c.op \in {"set", "matmul"} -> ~c.result.value.ok
         [] OTHER -> FALSE

\* C12, as stated: every tensor operation called with operands of
\* incompatible shape, or with an out-of-bounds or wrong-arity multi-index,
\* returns a failure value to the caller; no operation aborts the process
\* but Tensor::new called with a buffer whose length is not the product of
\* the shape.
TensorErrorsExplicit ==
    outcome # None =>
        /\ StructuralError(outcome[1]) => ExplicitFailure(outcome[1])
        /\ outcome[1].result.kind = "panic" =>
               /\ outcome[1].op = "new"
               /\ Len(outcome[1].args[1]) # product(outcome[1].args[2])

\* What holds of the code: get, set and matmul return a failure value on a
\* structural error and never abort.
TensorAccessErrorsExplicit ==
    (outcome # None /\ outcome[1].op \in {"get", "set", "matmul"}) =>
        /\ StructuralError(outcome[1]) <=> ExplicitFailure(outcome[1])
        /\ outcome[1].result.kind = "return"

-----------------------------------------------------------------------------
(* C13: malformed configuration lines *)

\* The section the entries of line i go to: the text of the last `##` line
\* before it.
RECURSIVE SectionBefore(_)
SectionBefore(i) ==
    IF i <= 1 THEN <<>>
    ELSE IF lines[i - 1].ok /\ starts_with(trim(lines[i - 1].value),
                                           <<"#", "#">>)
    THEN trim(slice_from(trim(lines[i - 1].value), 2))
    ELSE SectionBefore(i - 1)

KnownSections ==
    {ProjectInfo, Dependencies, BuildSettings, RuntimeSettings,
     CustomSettings}

HasColon(s) == \E k \in DOMAIN s : s[k] = ":"

\* Line i is a `-` entry without a `:`, or an entry of a section that is
\* not one of the five.
Malformed(i) ==
    /\ lines[i].ok
    /\ starts_with(trim(lines[i].value), <<"-">>)
    /\ \/ ~HasColon(lines[i].value)
       \/ SectionBefore(i) \notin KnownSections

\* C13, as stated: when parse_zom_file has read a malformed line it returns
\* a failure to its caller, not Ok.
MalformedLinesReported ==
    (pc = "zom_done" /\ \E i \in 1..line_no : Malformed(i)) =>
        ~zom_result[1].ok

\* What holds of the code: the only failure parse_zom_file returns is that
\* of a line that could not be read; a malformed line leaves the config as
\* it was.
MalformedLinesSkipped ==
    /\ [](pc = "zom_done" =>
             (zom_result[1].ok <=> \A i \in 1..line_no : lines[i].ok))
    /\ [][(pc = "zom" /\ line_no' = line_no + 1 /\ Malformed(line_no'))
             => config' = config]_vars

-----------------------------------------------------------------------------
(* C14: the pretty-printer *)

KindName(n) ==
    CASE n.kind = "Assignment" -> "AssignmentNode"
      [] n.kind = "Variable" -> "VariableNode"
      [] n.kind = "Number" -> "NumberNode"
      [] n.kind = "BinaryOperation" -> "BinaryOperationNode"
      [] n.kind = "Parenthesis" -> "ParenthesisNode"
      [] n.kind = "If" -> "IfNode"
      [] n.kind = "While" -> "WhileNode"

Payload(n) ==
    CASE n.kind = "Variable" -> <<n.name>>
      [] n.kind = "Number" -> <<n.value>>
      [] n.kind = "BinaryOperation" -> <<n.operator>>
      [] OTHER -> <<>>

\* One line for each node of the trees, parents first: the kind name and
\* the payload of the node, a child one level deeper than its parent.
RECURSIVE Rendered(_, _)
Rendered(trees, depth) ==
    IF trees = <<>> THEN <<>>
    ELSE <<Line(depth, <<KindName(Head(trees))>> \o Payload(Head(trees)))>>
         \o Rendered(Children(Head(trees)), depth + 1)
         \o Rendered(Tail(trees), depth)

\* C14, as stated: the printed AST has exactly one line for each node of
\* the parsed trees, with the node's kind name and its name, literal text
\* or operator, each child at its parent's indentation plus one; If and
\* While nodes and their children included.
PrinterCoverage ==
    (pc = "printed" /\ statements # <<>>) =>
        /\ Len(output) = Len(NodeSeq(statements))
        /\ output = Rendered(statements, 0)

\* What holds of the code: the trees without an If or a While node are
\* printed so, and an If or While node is printed as the one line
\* `Unknown node type`, without its children.
PrinterCoversExpressions ==
    (pc = "printed" /\ statements # <<>>) =>
        /\ (\A i \in 1..Len(NodeSeq(statements)) :
                NodeSeq(statements)[i].kind \notin {"If", "While"})
               => output = Rendered(statements, 0)
        /\ \A i \in 1..Len(statements) :
               statements[i].kind \in {"If", "While"}
                   => \E k \in 1..Len(output) :
                          output[k] = Line(0, <<"Unknown node type">>)

-----------------------------------------------------------------------------
(* C15: the cursor *)

\* The index (0-based, as Parser.current) of the first EOF token.
FirstEOF ==
    (CHOOSE i \in 1..Len(tokens) :
         /\ tokens[i].token_type = "EOF"
         /\ \A j \in 1..(i - 1) : tokens[j].token_type # "EOF") - 1

\* C15: for tokens that end with EOF, at every use of the cursor during
\* Parser::parse (every advance, every previous) and in every state between
\* two statements, the cursor is at least 0 and at most the index of the
\* first EOF token (so peek reads a token of the sequence), it is never
\* smaller than at the use before, and previous is evaluated only with the
\* cursor at 1 or more.
CursorInvariant ==
    /\ [](/\ 0 <= current /\ current <= FirstEOF
          /\ FirstEOF < Len(tokens)
          /\ \A k \in 1..Len(trail) :
                 /\ 0 <= trail[k].at /\ trail[k].at <= FirstEOF
                 /\ k > 1 => trail[k - 1].at <= trail[k].at
                 /\ trail[k].op = "previous" => trail[k].at >= 1
          /\ trail # <<>> => current = trail[Len(trail)].at)
    /\ [][current' >= current]_vars

\* The parse has stopped at an EOF that is not the last token, two tokens or
\* more in, having evaluated previous with the cursor at 1.
CursorInvariantWitness ==
    /\ pc = "eof"
    /\ current = FirstEOF
    /\ FirstEOF + 1 < Len(tokens)
    /\ current >= 2
    /\ \E k \in 1..Len(trail) : trail[k].op = "previous" /\ trail[k].at = 1

-----------------------------------------------------------------------------
(* C16: if and else *)

\* The statement ends with an if that has no else branch: an `else` right
\* after it would belong to that if.
RECURSIVE OpenIf(_)
OpenIf(n) ==
    CASE n.kind = "If" ->
            IF n.else_branch = None THEN TRUE ELSE OpenIf(n.else_branch[1])
      [] n.kind = "While" -> OpenIf(n.body)
      [] OTHER -> FALSE

\* C16: `if (a) b` parses to If(a, b, no else) and `if (a) b else c` to
\* If(a, b, c); an If node has no else branch exactly when no `else`
\* follows its then branch: the trees read back are the tokens consumed,
\* and no `else` follows a statement that ends with an if without else;
\* an `else` belongs to the nearest if without one: the then branch of an
\* If node with an else branch never ends with an if without else, and
\* `if (a) if (b) c else d` parses to If(a, If(b, c, d), no else); an if
\* statement that fails in its `(`, its condition, its `)` or one of its
\* branches gives no node at all.
IfElseStructure ==
    /\ (tokens = IfThen /\ pc = "eof") =>
           statements = <<IfNode(VarA, VarB, None)>>
    /\ (tokens = IfThenElse /\ pc = "eof") =>
           statements = <<IfNode(VarA, VarB, Some(VarC))>>
    /\ (tokens = DanglingElse /\ pc = "eof") =>
           statements
               = <<IfNode(VarA, IfNode(VarB, VarC, Some(VarD)), None)>>
    /\ (tokens = ElseThroughWhile /\ pc = "eof") =>
           statements
               = <<IfNode(VarA,
                          WhileNode(VarB, IfNode(VarA, VarC, Some(VarD))),
                          None)>>
    /\ tokens \in {IfThen, IfThenElse, DanglingElse, ElseThroughWhile}
           => pc # "break"
    /\ Faithful
    /\ (pc # "break" /\ statements # <<>>
          /\ OpenIf(statements[Len(statements)])) =>
           tokens[current + 1].token_type # "Else"
    /\ \A i \in 1..Len(NodeSeq(statements)) :
           LET n == NodeSeq(statements)[i]
           IN  (n.kind = "If" /\ n.else_branch # None)
                   => ~OpenIf(n.then_branch)
    /\ (tokens \in FailingIfs /\ pc # "parse") =>
           pc = "break" /\ statements = <<>> /\ diag # <<>>
    /\ (tokens \in {<<idC>> \o f : f \in FailingIfs} /\ pc = "break") =>
           statements = <<VarC>>
    /\ tokens \in {<<idC>> \o f : f \in FailingIfs} => pc # "eof"

IfElseStructureWitness ==
    /\ tokens = DanglingElse
    /\ pc = "eof"
    /\ statements = <<IfNode(VarA, IfNode(VarB, VarC, Some(VarD)), None)>>

====
